---- MODULE Spec2Model ----
(***************************************************************************)
(* A model of the SceneManager of gz3d (src/unnamed/part_000): the         *)
(* connection life cycle (constructor, connect, disconnect, destroy), the  *)
(* handlers of the transport's status and scene-information observables,   *)
(* the pose and scene topic handlers, publish and the animation loop.      *)
(*                                                                         *)
(* The Transport, the Scene, the SDF parser and the Publisher are not part *)
(* of the sources; they are modelled by what the SceneManager calls on     *)
(* them.  JavaScript's undefined is the record Undefined for objects, the  *)
(* string Absent for strings and 0 for the numeric handles (request ids    *)
(* and subscriptions start at 1; the code tests them for truthiness).      *)
(* The page has the element elementId, and it has no children at first.    *)
(***************************************************************************)
EXTENDS Integers, Sequences, FiniteSets, TLC

VARIABLES
  sm,          \* the SceneManager object: its fields
  transport,   \* the Transport object the manager owns
  container,   \* the children (canvases) of the HTML element elementId
  rafPending,  \* the ids of the pending requestAnimationFrame callbacks
  lastOp,      \* the operation that ran last, with the calls it made
  hist         \* history of the run, read by the properties only

vars == <<sm, transport, container, rafPending, lastOp, hist>>

----------------------------------------------------------------------------
(* Bounds of the model. *)

\* connect() is called at most MaxConnects times in a run.
MaxConnects == 2
\* The model list holds at most MaxModels entries.
MaxModels == 2
\* At most MaxRaf animation loops are started.
MaxRaf == 2
\* Frame timestamps are 1..MaxTime.
MaxTime == 1
\* Models (and poses) of one message.
MaxMsgLen == 2
\* With a client of getConnectionStatusAsObservable(), a run has at most
\* MaxObserved status events.
MaxObserved == 3

----------------------------------------------------------------------------
(* Values. *)

Undefined == [undefined |-> TRUE]
Absent == "<undefined>"
EmptyObject == [empty |-> TRUE]
Null == [null |-> TRUE]

Statuses == {"disconnected", "connected", "ready", "error"}

\* A model of a scene message, as the server sends it.
ModelPool == {[name |-> "a", id |-> 1], [name |-> "a", id |-> 2],
              [name |-> "b", id |-> 1]}

SeqsUpTo(S, n) == UNION {[1..k -> S] : k \in 0..n}

\* Messages of the scene topic: null, or an object with a list of models, in
\* which a name may be repeated.
SceneMsgs == {Null} \cup {[model |-> ms] : ms \in SeqsUpTo(ModelPool, MaxMsgLen)}

\* Whether a scene message lists a model name more than once.
RepeatsName(msg) ==
  /\ msg # Null
  /\ \E i, j \in 1..Len(msg.model) : i # j /\ msg.model[i].name = msg.model[j].name

\* The scene information of a connection: null, or the models of the world.
SceneInfos == {Null, [model |-> << >>],
               [model |-> <<[name |-> "a", id |-> 1]>>],
               [model |-> <<[name |-> "a", id |-> 1], [name |-> "b", id |-> 1]>>]}

\* Pose messages: a list of poses, each with the name of an entity.
PosePool == {[name |-> "a", position |-> 1, orientation |-> 1],
             [name |-> "b", position |-> 2, orientation |-> 1],
             [name |-> "c", position |-> 1, orientation |-> 2]}
PoseMsgs == {[pose |-> ps] : ps \in SeqsUpTo(PosePool, MaxMsgLen)}

\* The configurations a SceneManager is constructed with.
Url == "ws://sim"
Key == "key"
Configs ==
  { [websocketUrl |-> u, websocketKey |-> Key, topicName |-> t,
     msgType |-> "T", msgData |-> d] :
      u \in {Absent, "", Url}, t \in {Absent, "topic"}, d \in {Absent, "data"} }

\* Truthiness of a string that may be undefined.
Truthy(str) == str # Absent /\ str # ""

\* The smallest id >= 1 that is not in use.
FreshId(used) == CHOOSE i \in 1..(Cardinality(used) + 1) : i \notin used

----------------------------------------------------------------------------
(* The collaborators, modelled by the calls the SceneManager makes. *)

\* new Scene(...): a scene with no objects.  Its renderer's canvas is
\* renderer.domElement; its field scene is the rendering engine's scene
\* graph, which has no renderer of its own.
NewScene(canvas) ==
  [ scene    |-> [type |-> "THREE.Scene"],
    renderer |-> [domElement |-> canvas],
    objs     |-> << >> ]

\* scene.add(obj): the object is in the scene, under its name.
SceneAdd(scene, objName) == [scene EXCEPT !.objs = Append(@, objName)]

\* scene.getByName(name): whether the scene has an object of that name.
SceneGetByName(scene, name) == \E i \in 1..Len(scene.objs) : scene.objs[i] = name

\* sdfParser.spawnFromObj({model}, ...): an object named after the model.
SpawnFromObj(model) == [name |-> model.name]

\* transport.advertise(topic, msgTypeName): a publisher of the topic.
TransportAdvertise(topic, msgTypeName) == [topic |-> topic, msgType |-> msgTypeName]

\* publisher.createMessage(msgData): a message of the publisher's type.
CreateMessage(publisher, msgData) == [type |-> publisher.msgType, data |-> msgData]

\* transport.connect(url, key): a websocket to the server is opened; nothing
\* has been received on it yet.
TransportConnect(tr, url, key) ==
  [tr EXCEPT !.connects = @ + 1, !.url = url, !.key = key, !.phase = "opening"]

\* transport.disconnect(): the websocket is asked to close and the topic
\* subscriptions are dropped.  Closing is asynchronous: what the socket had
\* received may still be emitted until the close is reported.
TransportDisconnect(tr) == [tr EXCEPT !.topicMap = {}]

\* transport.subscribe(topic): messages of the topic are handed to its callback.
TransportSubscribe(tr, topic) == [tr EXCEPT !.topicMap = @ \cup {topic}]

----------------------------------------------------------------------------
(* What an operation did: the calls it made on the collaborators. *)

NoEffect ==
  [ handlers  |-> 0,      \* status / scene-information handlers that ran
    scenes    |-> 0,      \* new Scene(...) calls
    poseSubs  |-> 0,      \* transport.subscribe(poseTopic) calls
    sceneSubs |-> 0,      \* transport.subscribe(sceneTopic) calls
    connects  |-> 0,      \* transport.connect calls
    cleanups  |-> 0,      \* scene.cleanup calls
    noScene   |-> FALSE,  \* a transport handler ran while this.scene was undefined
    threw     |-> FALSE,  \* a TypeError ended a handler
    published |-> << >>,  \* messages given to publisher.publish
    setPose   |-> << >>,  \* scene.setPose calls
    rendered  |-> FALSE ] \* scene.render was called

\* The state the operations act on, as one record.
World == [sm |-> sm, tr |-> transport, dom |-> container, raf |-> rafPending,
          eff |-> NoEffect]

----------------------------------------------------------------------------
(* The operations of the SceneManager, as functions of the world. *)

\* getModelIndex(name): the 0-based index of the first entry of that name, -1
\* if there is none.  GetModelIndexFrom is the loop from index i on.
RECURSIVE GetModelIndexFrom(_, _, _)
GetModelIndexFrom(models, name, i) ==
  IF i >= Len(models) THEN -1
  ELSE IF models[i + 1].name = name THEN i
  ELSE GetModelIndexFrom(models, name, i + 1)

\* A lookup that finds nothing.
getModelIndexNever(models, name) == -1

\* A lookup whose loop does not stop at the first match.
getModelIndexLast(models, name) ==
  LET found == {i \in 0..(Len(models) - 1) : models[i + 1].name = name}
  IN IF found = {} THEN -1 ELSE CHOOSE i \in found : \A j \in found : j <= i

getModelIndex(models, name) == GetModelIndexFrom(models, name, 0)

\* setupVisualization(): a new scene and parser; the scene's canvas is
\* appended to the container element.
setupVisualization(w) ==
  LET canvas == FreshId(w.dom)
  IN [w EXCEPT !.sm.scene = NewScene(canvas),
               !.sm.sdfParser = [usingFilesUrls |-> TRUE],
               !.sm.sceneElement = TRUE,
               !.dom = @ \cup {canvas},
               !.eff.scenes = @ + 1]

\* subscribeToTopics(): one subscription to the pose topic and one to the
\* scene topic.
subscribeToTopics(w) ==
  [w EXCEPT !.tr = TransportSubscribe(TransportSubscribe(@, "pose"), "scene"),
            !.eff.poseSubs = @ + 1,
            !.eff.sceneSubs = @ + 1]

\* animate(): request the next frame and remember its id.
animate(w) ==
  LET id == FreshId(w.raf)
  IN [w EXCEPT !.raf = @ \cup {id}, !.sm.cancelAnimation = id]

startVisualization(w) == animate(w)

\* A status handler that advertises as soon as the socket is open.
StatusHandlerAdvertiseEarly(w, response) ==
  LET w1 == [w EXCEPT !.sm.connectionStatus = response, !.eff.handlers = @ + 1]
      w2 == IF response = "connected"
            THEN LET w5 == setupVisualization(w1)
                 IN IF Truthy(w5.sm.topicName)
                    THEN [w5 EXCEPT !.sm.publisher =
                            TransportAdvertise(w5.sm.topicName, w5.sm.msgType)]
                    ELSE w5
            ELSE w1
  IN IF response = "ready" THEN subscribeToTopics(w2) ELSE w2

\* A status handler that sets the visualization up when the status is ready.
StatusHandlerLateSetup(w, response) ==
  LET w1 == [w EXCEPT !.sm.connectionStatus = response, !.eff.handlers = @ + 1]
  IN IF response = "ready"
     THEN LET w4 == subscribeToTopics(setupVisualization(w1))
          IN IF Truthy(w4.sm.topicName)
             THEN [w4 EXCEPT !.sm.publisher =
                     TransportAdvertise(w4.sm.topicName, w4.sm.msgType)]
             ELSE w4
     ELSE w1

\* The handler of the connection status, subscribed in connect().
StatusHandler(w, response) ==
  LET w1 == [w EXCEPT !.sm.connectionStatus = response, !.eff.handlers = @ + 1]
      w2 == IF response = "connected" THEN setupVisualization(w1) ELSE w1
      w3 == IF response = "ready"
            THEN LET w4 == subscribeToTopics(w2)
                 IN IF Truthy(w4.sm.topicName)
                    THEN [w4 EXCEPT !.sm.publisher =
                            TransportAdvertise(w4.sm.topicName, w4.sm.msgType)]
                    ELSE w4
            ELSE w2
  IN w3

\* sceneInfo['model'].forEach of the scene-information handler: every model is
\* spawned, pushed to the list and added to the scene.  Without a parser the
\* first model ends the handler with a TypeError.
RECURSIVE AddInfoModels(_, _)
AddInfoModels(w, ms) ==
  IF ms = << >> THEN w
  ELSE IF w.sm.sdfParser = Undefined THEN [w EXCEPT !.eff.threw = TRUE]
  ELSE LET model == Head(ms)
           modelObj == SpawnFromObj(model)
           entry == [name |-> model.name, id |-> model.id, gz3dName |-> modelObj.name]
       IN AddInfoModels([w EXCEPT !.sm.models = Append(@, entry),
                                  !.sm.scene = SceneAdd(@, modelObj.name)],
                        Tail(ms))

\* The handler of the scene information, subscribed in connect().  sceneInfo
\* keeps the reference to the message: its models are the entries pushed.
\* The sky, the lights and the ambient colour of the message only change the
\* rendering state inside the scene, which the model does not keep.
SceneInfoHandler(w, sceneInfo) ==
  IF sceneInfo = Null THEN w
  ELSE LET w1 == [w EXCEPT !.eff.handlers = @ + 1,
                           !.eff.noScene = @ \/ (w.sm.scene = Undefined),
                           !.sm.sceneInfo = [message |-> TRUE]]
       IN AddInfoModels(startVisualization(w1), sceneInfo.model)

\* The callback of the scene topic ('scene/info'), model by model: a model
\* whose name is not in the list is spawned, pushed and added to the scene; for
\* a name that is in the list only the entry's id is updated.
RECURSIVE SceneTopicModels(_, _)
SceneTopicModels(w, ms) ==
  IF ms = << >> THEN w
  ELSE LET model == Head(ms)
           foundIndex == getModelIndex(w.sm.models, model.name)
       IN IF foundIndex < 0
          THEN IF w.sm.sdfParser = Undefined THEN [w EXCEPT !.eff.threw = TRUE]
               ELSE LET modelObj == SpawnFromObj(model)
                    IN SceneTopicModels(
                         [w EXCEPT !.sm.models = Append(@, model),
                                   !.sm.scene = SceneAdd(@, modelObj.name)],
                         Tail(ms))
          ELSE SceneTopicModels(
                 [w EXCEPT !.sm.models[foundIndex + 1].id = model.id], Tail(ms))

SceneTopicHandler(w, sceneInfo) ==
  IF sceneInfo = Null THEN w
  ELSE SceneTopicModels([w EXCEPT !.eff.handlers = @ + 1,
                                  !.eff.noScene = @ \/ (w.sm.scene = Undefined)],
                        sceneInfo.model)

\* A pose loop that a pose of an unknown entity ends.
RECURSIVE PoseTopicPosesStopAtMissing(_, _)
PoseTopicPosesStopAtMissing(w, ps) ==
  IF ps = << >> THEN w
  ELSE IF w.sm.scene = Undefined THEN [w EXCEPT !.eff.threw = TRUE]
  ELSE LET pose == Head(ps)
           entityName == pose.name
       IN IF SceneGetByName(w.sm.scene, entityName)
          THEN PoseTopicPosesStopAtMissing(
                 [w EXCEPT !.eff.setPose = Append(@, <<entityName, pose.position,
                                                       pose.orientation>>)],
                 Tail(ps))
          ELSE w

\* The callback of the pose topic, pose by pose: setPose on the entity of that
\* name, a warning if the scene has none.
RECURSIVE PoseTopicPoses(_, _)
PoseTopicPoses(w, ps) ==
  IF ps = << >> THEN w
  ELSE IF w.sm.scene = Undefined THEN [w EXCEPT !.eff.threw = TRUE]
  ELSE LET pose == Head(ps)
           entityName == pose.name
       IN IF SceneGetByName(w.sm.scene, entityName)
          THEN PoseTopicPoses(
                 [w EXCEPT !.eff.setPose = Append(@, <<entityName, pose.position,
                                                       pose.orientation>>)],
                 Tail(ps))
          ELSE PoseTopicPoses(w, Tail(ps))

PoseTopicHandler(w, msg) ==
  PoseTopicPoses([w EXCEPT !.eff.handlers = @ + 1,
                           !.eff.noScene = @ \/ (w.sm.scene = Undefined)],
                 msg.pose)

\* connect(url, key): connect the transport and subscribe the two handlers.
\* The subscriptions replace the ones the fields held, which stay subscribed.
connect(w, url, key) ==
  LET tr1 == TransportConnect(w.tr, url, key)
      sub == tr1.connects
  IN [w EXCEPT !.tr = [tr1 EXCEPT !.statusObservers = @ \cup {sub},
                                  !.sceneInfoObservers = @ \cup {sub}],
               !.sm.statusSubscription = sub,
               !.sm.sceneInfoSubscription = sub,
               !.eff.connects = @ + 1]

\* A disconnect that leaves the connection status as it is.
disconnectKeepsStatus(w) ==
  [w EXCEPT !.tr = [TransportDisconnect(@) EXCEPT
                      !.sceneInfoObservers = @ \ {w.sm.sceneInfoSubscription},
                      !.statusObservers = @ \ {w.sm.statusSubscription}],
            !.sm.sceneInfo = EmptyObject]

\* disconnect(): remove the canvas, disconnect the transport, reset the scene
\* information and the status, unsubscribe the subscriptions of the fields.
disconnect(w) ==
  LET dom1 == IF w.sm.sceneElement /\ Cardinality(w.dom) > 0
                 /\ "renderer" \in DOMAIN w.sm.scene.scene
              THEN w.dom \ {w.sm.scene.scene.renderer.domElement}
              ELSE w.dom
  IN [w EXCEPT !.dom = dom1,
               !.tr = [TransportDisconnect(@) EXCEPT
                         !.sceneInfoObservers = @ \ {w.sm.sceneInfoSubscription},
                         !.statusObservers = @ \ {w.sm.statusSubscription}],
               !.sm.sceneInfo = EmptyObject,
               !.sm.connectionStatus = "disconnected"]

\* destroy(): disconnect, cancel the animation frame whose id is kept, reset
\* the render timestamp and clean the scene up.
destroy(w) ==
  LET w1 == disconnect(w)
      w2 == IF w1.sm.cancelAnimation # 0
            THEN [w1 EXCEPT !.raf = @ \ {w1.sm.cancelAnimation}]
            ELSE w1
      w3 == [w2 EXCEPT !.sm.previousRenderTimestampMs = 0]
  IN IF w3.sm.scene # Undefined
     THEN [w3 EXCEPT !.eff.cleanups = @ + 1]
     ELSE w3

\* publish(): one message made of msgData, if there is a scene and a publisher.
publish(w) ==
  IF w.sm.scene # Undefined /\ w.sm.publisher # Undefined
  THEN [w EXCEPT !.eff.published =
          Append(@, CreateMessage(w.sm.publisher, w.sm.msgData))]
  ELSE w

\* A constructor that connects whatever the websocket url is.
constructorAlwaysConnects(w, config) ==
  connect(w, config.websocketUrl, config.websocketKey)

\* The constructor: the configuration is copied, and connect is called if a
\* websocket url is given.
constructor(w, config) ==
  LET w1 == IF Truthy(config.topicName) /\ Truthy(config.msgType)
               /\ Truthy(config.msgData)
            THEN [w EXCEPT !.sm.topicName = config.topicName,
                           !.sm.msgType = config.msgType,
                           !.sm.msgData = config.msgData]
            ELSE w
  IN IF Truthy(config.websocketUrl)
     THEN connect(w1, config.websocketUrl, config.websocketKey)
     ELSE w1

\* The callback of requestAnimationFrame in animate(): the next frame is
\* requested, then the scene is rendered.
AnimationCallback(w, id, timestampMs) ==
  LET w1 == [w EXCEPT !.raf = @ \ {id}]
      w2 == IF w1.sm.previousRenderTimestampMs = 0
            THEN [w1 EXCEPT !.sm.previousRenderTimestampMs = timestampMs]
            ELSE w1
      w3 == animate(w2)
  IN IF w3.sm.scene = Undefined THEN [w3 EXCEPT !.eff.threw = TRUE]
     ELSE [w3 EXCEPT !.eff.rendered = TRUE,
                     !.sm.previousRenderTimestampMs = timestampMs]

\* A map that tells an open socket from the others.
StatusIsConnected(status) == status = "connected"

\* map((status) => status === 'ready') of getConnectionStatusAsObservable().
StatusIsReady(status) == status = "ready"

\* A Subject hands a value to each of its n observers in turn; the observers
\* of the manager are all the same handler.
RECURSIVE EmitStatusTo(_, _, _)
EmitStatusTo(w, n, response) ==
  IF n = 0 THEN w ELSE EmitStatusTo(StatusHandler(w, response), n - 1, response)

RECURSIVE EmitSceneInfoTo(_, _, _)
EmitSceneInfoTo(w, n, sceneInfo) ==
  IF n = 0 THEN w ELSE EmitSceneInfoTo(SceneInfoHandler(w, sceneInfo), n - 1, sceneInfo)

----------------------------------------------------------------------------
(* The transport as the manager's environment: what it emits and when.  On  *)
(* each connection 'connected' is emitted before 'ready' and before any     *)
(* scene information; an error can be reported while the socket is not      *)
(* closed, and 'disconnected' reports that it closed.                       *)

CanEmitStatus(phase, status) ==
  CASE status = "connected"    -> phase = "opening"
    [] status = "ready"        -> phase = "connected"
    [] status = "error"        -> phase # "closed"
    [] status = "disconnected" -> phase # "closed"

PhaseAfter(phase, status) ==
  CASE status = "connected"    -> "connected"
    [] status = "ready"        -> "ready"
    [] status = "error"        -> phase
    [] status = "disconnected" -> "closed"

CanEmitSceneInfo(phase) == phase \in {"connected", "ready"}

CanDeliverTopic(tr, topic) == topic \in tr.topicMap /\ tr.phase # "closed"

----------------------------------------------------------------------------
(* The state machine. *)

InitWith(observing) ==
  /\ sm = [ connectionStatus |-> "disconnected",
            sceneInfo |-> Undefined,
            scene |-> Undefined,
            sdfParser |-> Undefined,
            models |-> << >>,
            cancelAnimation |-> 0,
            previousRenderTimestampMs |-> 0,
            sceneElement |-> FALSE,
            topicName |-> Absent,
            msgType |-> Absent,
            msgData |-> Absent,
            publisher |-> Undefined,
            statusSubscription |-> 0,
            sceneInfoSubscription |-> 0 ]
  /\ transport = [ connects |-> 0, url |-> Absent, key |-> Absent,
                   phase |-> "closed",
                   statusObservers |-> {}, sceneInfoObservers |-> {},
                   topicMap |-> {} ]
  /\ container = {}
  /\ rafPending = {}
  /\ lastOp = [op |-> "none", arg |-> "", msg |-> Null, eff |-> NoEffect]
  /\ hist = [ constructed |-> FALSE,  \* the constructor has run
              everReady |-> FALSE,    \* a status handler has received 'ready'
              arrived |-> FALSE,      \* a status handler has run since the
                                      \* construction or the last disconnect()
              emitted |-> "none",     \* the last status emitted since the last
                                      \* connect()
              afterDisconnect |-> FALSE, \* disconnect() has returned and
                                      \* connect() was not called since
              observing |-> observing, \* the status observable has a client
              statusIn |-> << >>,     \* the statuses the transport emitted
              readyOut |-> << >> ]    \* what the status observable emitted

\* No client of getConnectionStatusAsObservable().
Init == InitWith(FALSE)

\* A client subscribed to getConnectionStatusAsObservable() from the start.
InitObserved == InitWith(TRUE)

\* The state after an operation op(arg), or op(msg), that made the world w.
CommitMsg(w, op, arg, msg) ==
  /\ sm' = w.sm
  /\ transport' = w.tr
  /\ container' = w.dom
  /\ rafPending' = w.raf
  /\ lastOp' = [op |-> op, arg |-> arg, msg |-> msg, eff |-> w.eff]

Commit(w, op, arg) == CommitMsg(w, op, arg, Null)

Construct ==
  /\ ~hist.constructed
  /\ \E config \in Configs :
       /\ Commit(constructor(World, config), "constructor", config.websocketUrl)
       /\ hist' = [hist EXCEPT !.constructed = TRUE]

Connect ==
  /\ hist.constructed
  /\ transport.connects < MaxConnects
  /\ Commit(connect(World, Url, Key), "connect", "")
  /\ hist' = [hist EXCEPT !.emitted = "none", !.afterDisconnect = FALSE]

Disconnect ==
  /\ hist.constructed
  /\ Commit(disconnect(World), "disconnect", "")
  /\ hist' = [hist EXCEPT !.arrived = FALSE, !.afterDisconnect = TRUE]

Destroy ==
  /\ hist.constructed
  /\ Commit(destroy(World), "destroy", "")
  /\ hist' = [hist EXCEPT !.arrived = FALSE, !.afterDisconnect = TRUE]

Publish ==
  /\ hist.constructed
  /\ Commit(publish(World), "publish", "")
  /\ UNCHANGED hist

\* The transport emits a connection status: every subscribed status handler
\* runs, and so does the map of the status observable's client.
StatusEvent ==
  /\ hist.constructed
  /\ \E status \in Statuses :
       /\ CanEmitStatus(transport.phase, status)
       /\ hist.observing => Len(hist.statusIn) < MaxObserved
       /\ LET n == Cardinality(transport.statusObservers)
              w0 == [World EXCEPT !.tr.phase = PhaseAfter(@, status)]
              observing == hist.observing
          IN /\ Commit(EmitStatusTo(w0, n, status), "status", status)
             /\ hist' = [hist EXCEPT
                  !.everReady = @ \/ (status = "ready" /\ n > 0),
                  !.arrived = @ \/ n > 0,
                  !.emitted = status,
                  !.statusIn = IF observing THEN Append(@, status) ELSE @,
                  !.readyOut = IF observing THEN Append(@, StatusIsReady(status))
                               ELSE @]

\* The transport emits the scene information (or null).
SceneInfoEvent ==
  /\ hist.constructed
  /\ CanEmitSceneInfo(transport.phase)
  /\ \E sceneInfo \in SceneInfos :
       LET n == Cardinality(transport.sceneInfoObservers)
           w == EmitSceneInfoTo(World, n, sceneInfo)
       IN /\ Len(w.sm.models) <= MaxModels
          /\ Cardinality(w.raf) <= MaxRaf
          /\ Commit(w, "sceneInfo", "")
          /\ UNCHANGED hist

\* The transport hands a message of the scene topic to its callback.
SceneTopicMessage ==
  /\ CanDeliverTopic(transport, "scene")
  /\ \E sceneInfo \in SceneMsgs :
       LET w == SceneTopicHandler(World, sceneInfo)
       IN /\ Len(w.sm.models) <= MaxModels
          /\ CommitMsg(w, "sceneTopic", "", sceneInfo)
          /\ UNCHANGED hist

\* The transport hands a message of the pose topic to its callback.
PoseTopicMessage ==
  /\ CanDeliverTopic(transport, "pose")
  /\ \E msg \in PoseMsgs :
       /\ CommitMsg(PoseTopicHandler(World, msg), "poseTopic", "", msg)
       /\ UNCHANGED hist

\* The browser runs a pending animation frame callback.
AnimationFrame ==
  /\ \E id \in rafPending, timestampMs \in 1..MaxTime :
       /\ timestampMs >= sm.previousRenderTimestampMs
       /\ Commit(AnimationCallback(World, id, timestampMs), "frame", "")
       /\ UNCHANGED hist

Next ==
  \/ Construct
  \/ Connect
  \/ Disconnect
  \/ Destroy
  \/ Publish
  \/ StatusEvent
  \/ SceneInfoEvent
  \/ SceneTopicMessage
  \/ PoseTopicMessage
  \/ AnimationFrame

Spec == Init /\ [][Next]_vars

SpecObserved == InitObserved /\ [][Next]_vars

----------------------------------------------------------------------------
(* Properties. *)

\* C1: the constructor calls transport.connect exactly once, with the url and
\* the key of the configuration, if websocketUrl is a non-empty string, and not
\* at all if it is absent or empty; as long as connect() has not been called
\* the status is 'disconnected'.
C1_ConstructorConnects ==
  /\ lastOp.op = "constructor" =>
       IF Truthy(lastOp.arg)
       THEN /\ lastOp.eff.connects = 1
            /\ transport.connects = 1
            /\ transport.url = lastOp.arg
            /\ transport.key = Key
       ELSE /\ lastOp.eff.connects = 0
            /\ transport.connects = 0
  /\ transport.connects = 0 => sm.connectionStatus = "disconnected"

C1_Witness ==
  /\ lastOp.op = "constructor"
  /\ lastOp.arg = Url
  /\ transport.connects = 1
  /\ transport.statusObservers = {1}

\* C2: the connection status is 'disconnected' if no status event has arrived
\* since the construction or the last disconnect(), and otherwise it is the
\* status the transport emitted last since the last connect().
C2_StatusIsLastArrived ==
  /\ ~hist.arrived => sm.connectionStatus = "disconnected"
  /\ hist.arrived /\ hist.emitted # "none" => sm.connectionStatus = hist.emitted

C2_Witness ==
  /\ hist.arrived
  /\ hist.emitted = "error"
  /\ sm.connectionStatus = "error"
  /\ hist.everReady

\* The names of the entries of the model list, and whether the list and the
\* model objects of the current scene correspond.
ModelNames == {sm.models[i].name : i \in 1..Len(sm.models)}
SceneObjects == IF sm.scene = Undefined THEN << >> ELSE sm.scene.objs
SceneObjectNames == {SceneObjects[i] : i \in 1..Len(SceneObjects)}

\* C3: every entry of the model list has an object that was added to the
\* current scene, and every model object added to the current scene has an
\* entry in the list.
C3_ModelsAreSceneObjects ==
  /\ \A i \in 1..Len(sm.models) : sm.models[i].name \in SceneObjectNames
  /\ \A j \in 1..Len(SceneObjects) : SceneObjects[j] \in ModelNames

\* C4: after every disconnect() the container holds no canvas, and after every
\* 'connected' event that a status handler received it holds exactly one.
C4_OneCanvasAtMost ==
  /\ lastOp.op = "disconnect" => container = {}
  /\ (lastOp.op = "status" /\ lastOp.arg = "connected" /\ lastOp.eff.handlers > 0)
       => Cardinality(container) = 1

\* C5: once disconnect() has returned and until connect() is called, no status
\* event and no scene-information event of the transport changes the status,
\* the scene information, the models or the scene, or starts a render loop.
C5_NoEventAfterDisconnect ==
  [][ (hist.afterDisconnect /\ lastOp'.op \in {"status", "sceneInfo"})
        => /\ sm'.connectionStatus = sm.connectionStatus
           /\ sm'.sceneInfo = sm.sceneInfo
           /\ sm'.models = sm.models
           /\ sm'.scene = sm.scene
           /\ rafPending' = rafPending ]_vars

\* C6: after destroy() no animation frame callback of the manager is pending;
\* the manager is disconnected, previousRenderTimestampMs is 0 and the scene,
\* if there is one, was cleaned up.
C6_DestroyStopsAnimation ==
  lastOp.op = "destroy" =>
    /\ rafPending = {}
    /\ sm.connectionStatus = "disconnected"
    /\ sm.previousRenderTimestampMs = 0
    /\ lastOp.eff.cleanups = (IF sm.scene = Undefined THEN 0 ELSE 1)

\* C7: publish() hands exactly one message, made of the configured msgData, to
\* the publisher if there is a scene and a publisher obtained by advertising,
\* and none otherwise; nothing is published, and no publisher is held, before a
\* status handler has received 'ready'.
C7_PublishWhenAdvertised ==
  /\ lastOp.op = "publish" =>
       lastOp.eff.published =
         (IF sm.scene # Undefined /\ sm.publisher # Undefined
          THEN <<[type |-> "T", data |-> "data"]>>
          ELSE << >>)
  /\ lastOp.eff.published # << >> => hist.everReady
  /\ sm.publisher # Undefined => hist.everReady /\ sm.topicName = "topic"

C7_Witness ==
  /\ lastOp.op = "publish"
  /\ Len(lastOp.eff.published) = 1
  /\ sm.connectionStatus = "ready"

\* C8: for every status the transport emits, the status observable emits true
\* if the status is 'ready' and false otherwise, in the same order.
C8_ObservableMapsReady ==
  /\ Len(hist.readyOut) = Len(hist.statusIn)
  /\ \A i \in 1..Len(hist.statusIn) :
       hist.readyOut[i] = (hist.statusIn[i] = "ready")

C8_Witness ==
  /\ hist.statusIn = <<"connected", "ready", "error">>
  /\ hist.readyOut = <<FALSE, TRUE, FALSE>>

RECURSIVE NewNames(_, _)
NewNames(ms, known) ==
  IF ms = << >> THEN << >>
  ELSE IF Head(ms).name \in known THEN NewNames(Tail(ms), known)
  ELSE <<Head(ms).name>> \o NewNames(Tail(ms), known \cup {Head(ms).name})

LastIdOf(ms, name) ==
  LET last == CHOOSE i \in 1..Len(ms) :
                /\ ms[i].name = name
                /\ \A j \in (i + 1)..Len(ms) : ms[j].name # name
  IN ms[last].id

MentionedIn(ms, name) == \E i \in 1..Len(ms) : ms[i].name = name

\* C10: a scene-topic message appends one entry, and adds one object to the
\* scene, for each name that no entry of the list has, once even if the
\* message repeats the name; for a name that an entry has, the length of the
\* list and the scene are unchanged and only the id of that entry is set to the
\* id of the incoming model.
C10_SceneTopicUpdate ==
  [][ (lastOp'.op = "sceneTopic" /\ lastOp'.msg # Null) =>
        LET ms == lastOp'.msg.model
            old == sm.models
            new == sm'.models
            known == {old[i].name : i \in 1..Len(old)}
            added == NewNames(ms, known)
        IN /\ Len(new) = Len(old) + Len(added)
           /\ \A i \in 1..Len(old) :
                new[i] = IF MentionedIn(ms, old[i].name)
                            /\ getModelIndex(old, old[i].name) = i - 1
                         THEN [old[i] EXCEPT !.id = LastIdOf(ms, old[i].name)]
                         ELSE old[i]
           /\ \A k \in 1..Len(added) :
                new[Len(old) + k] =
                  [name |-> added[k], id |-> LastIdOf(ms, added[k])]
           /\ sm'.scene = [sm.scene EXCEPT !.objs = @ \o added]
           /\ container' = container ]_vars

C10_Witness ==
  /\ lastOp.op = "sceneTopic"
  /\ lastOp.msg = [model |-> <<[name |-> "b", id |-> 1], [name |-> "a", id |-> 2]>>]
  /\ sm.models = <<[name |-> "a", id |-> 2, gz3dName |-> "a"], [name |-> "b", id |-> 1]>>

\* Whether no two entries of a model list have the same name.
NamesUnique(models) ==
  \A i, j \in 1..Len(models) : i # j => models[i].name # models[j].name

\* C11: as long as every message of the server lists pairwise distinct model
\* names, no two entries of the model list have the same name: no operation
\* other than a scene-topic message that repeats a name takes a list without
\* repeated names to one with repeated names (the scene information of a
\* connection never repeats a name).
C11_ModelNamesUnique ==
  [][ (/\ NamesUnique(sm.models)
       /\ lastOp'.op = "sceneTopic" => ~RepeatsName(lastOp'.msg))
        => NamesUnique(sm'.models) ]_vars

\* The names a lookup is made with: those of the models and one of no model.
LookupNames == {"a", "b", "c"}

\* C12: getModelIndex(name) is the smallest index i with models[i]['name'] =
\* name, and -1 if no entry has that name, in particular for the empty list;
\* it is a function of the list and the name and leaves the list as it is.
C12_GetModelIndexFirstMatch ==
  \A name \in LookupNames :
    LET found == getModelIndex(sm.models, name)
        matches == {i \in 0..(Len(sm.models) - 1) : sm.models[i + 1].name = name}
    IN /\ found \in {-1} \cup 0..(Len(sm.models) - 1)
       /\ found = -1 <=> matches = {}
       /\ found # -1 => found \in matches /\ \A i \in matches : found <= i
       /\ sm.models = << >> => found = -1

\* A scene-topic message looked up "a" in a list with two entries of that name
\* and set the id of the first one.
C12_Witness ==
  /\ lastOp.op = "sceneTopic"
  /\ lastOp.msg = [model |-> <<[name |-> "a", id |-> 2]>>]
  /\ Len(sm.models) = 2
  /\ sm.models[1].name = "a" /\ sm.models[2].name = "a"
  /\ sm.models[1].id = 2 /\ sm.models[2].id = 1
  /\ getModelIndex(sm.models, "a") = 0
  /\ getModelIndex(sm.models, "b") = -1

\* C13: a message of the pose topic calls setPose once for every pose whose
\* name is that of an object of the scene, with the position and the
\* orientation of that pose, in the order of the message; a pose whose name is
\* not found changes neither the scene nor the model list and the poses after
\* it are still applied.
C13_PoseTopicSetsPoses ==
  [][ lastOp'.op = "poseTopic" =>
        LET ps == lastOp'.msg.pose
            names == SceneObjectNames
            found == SelectSeq(ps, LAMBDA pose : pose.name \in names)
        IN /\ Len(lastOp'.eff.setPose) = Len(found)
           /\ \A k \in 1..Len(found) :
                lastOp'.eff.setPose[k] =
                  <<found[k].name, found[k].position, found[k].orientation>>
           /\ sm'.scene = sm.scene
           /\ sm'.models = sm.models
           /\ container' = container ]_vars

\* A pose of the unknown entity "c" came before one of the object "b".
C13_Witness ==
  /\ lastOp.op = "poseTopic"
  /\ lastOp.msg = [pose |-> <<[name |-> "c", position |-> 1, orientation |-> 2],
                              [name |-> "b", position |-> 2, orientation |-> 1]>>]
  /\ lastOp.eff.setPose = <<<<"b", 2, 1>>>>
  /\ "b" \in SceneObjectNames
  /\ "c" \notin SceneObjectNames

====
